---- MODULE Spec2Model ----
(***************************************************************************)
(* queuectl: a SQLite-backed job queue with worker processes.              *)
(*                                                                         *)
(* The jobs table is the function `jobs` (its domain is the set of ids     *)
(* present).  Every storage function runs one transaction and is one       *)
(* action; a worker or a control-plane command that calls several storage  *)
(* functions is several actions, so other processes interleave between     *)
(* them.  Time is counted in ticks, TicksPerSec to the second; a stored    *)
(* timestamp is the tick it was formatted from, and the store compares     *)
(* timestamps as the TEXT that utc_now_str() produced (IsoLeq).            *)
(***************************************************************************)
EXTENDS Integers, FiniteSets, Sequences, TLC

\* ------------------------------------------------------------- bounds
NumJobs == 2
NumWorkers == 2
NumClients == 1
NumSysJobs == 1
NumCtlClients == 2
NumCtlWorkers == 1
NumStopWorkers == 1
MaxTime == 2
MaxRetries == 2
MaxBase == 1
TicksPerSec == 2
NumWriters == 2
NumChunks == 2
NumSupervisors == 2

\* ---------------------------------------------------------- constants
DEFAULT_MAX_RETRIES == 3
DEFAULT_BACKOFF_BASE == 2
DEFAULT_POLL_INTERVAL == 2
ERROR_LIMIT == 512
SYNTHETIC_LEN == 26
STORE_ERROR_LEN == 43
TIMEOUT_LEN == 40
NOT_FOUND_LEN == 64
PERMISSION_LEN == 39
OTHER_ERROR_LEN == 25
EXIT_NOT_FOUND == 127
EXIT_PERMISSION == 126

NULL == 0 - 1
NoJob == 0

JobIds == 1 .. NumJobs
Workers == 1 .. NumWorkers
Clients == 1 .. NumClients
BackoffBases == 0 .. MaxBase
SysJobIds == 1 .. NumSysJobs
CtlClients == 1 .. NumCtlClients
CtlWorkers == 1 .. NumCtlWorkers
StopWorkers == 1 .. NumStopWorkers
AllClients == Clients \cup CtlClients
ExecsCap == MaxRetries + 1
Writers == 1 .. NumWriters
Inodes == 1 .. NumWriters + 1
Supervisors == 1 .. NumSupervisors
NoInode == 0

CONFIG_MAX_RETRIES == "max_retries_default"
CONFIG_BACKOFF_BASE == "backoff_base"
CONFIG_POLL_INTERVAL == "poll_interval"
ConfigKeys == {CONFIG_MAX_RETRIES, CONFIG_BACKOFF_BASE, CONFIG_POLL_INTERVAL}

STATE_PENDING == "pending"
STATE_PROCESSING == "processing"
STATE_COMPLETED == "completed"
STATE_FAILED == "failed"
STATE_DEAD == "dead"

\* A worker's control file: absent, or present with "stop": false / true.
CTL_ABSENT == "absent"
CTL_RUNNING == "running"
CTL_STOP == "stop"
\* Other content the file can hold: text that is not a JSON document (json.load
\* raises JSONDecodeError), a JSON document that is not an object (a list, a
\* string, a number, null), and bytes that are not UTF-8 (the text-mode read
\* raises UnicodeDecodeError).
CTL_GARBLED == "garbled"
CTL_NOT_OBJECT == "not object"
CTL_NOT_UTF8 == "not utf-8"
ControlContents ==
    {CTL_ABSENT, CTL_RUNNING, CTL_STOP, CTL_GARBLED, CTL_NOT_OBJECT, CTL_NOT_UTF8}

\* How a control-plane command ended: not yet; with its message of success;
\* refused with typer.BadParameter (HTTP 400 / 404) and its message; or with
\* the sqlite3.IntegrityError of the INSERT.
R_NONE == "none"
R_ENQUEUED == "Enqueued job"
R_API_ENQUEUED == "Job enqueued"
R_REQUEUED == "Requeued job"
R_DELETED == "Deleted job"
R_EXISTS == "already exists"
R_NOT_IN_DLQ == "Job not found in DLQ"
R_NOT_FOUND == "not found"
R_INTEGRITY == "IntegrityError"

\* How a worker start or worker stop ended: with its message, with the
\* typer.BadParameter of an id that is not registered, or with the exception
\* that load_json or the assignment of "stop" raised.
R_STARTED == "Started"
R_STOP_SENT == "Stop signal sent"
R_NO_WORKERS == "No workers registered"
R_WORKER_NOT_FOUND == "Worker not found"
R_STOP_RAISED == "Exception"

\* worker stop --id "": the empty string, an id no worker has
EMPTY_ID == 0

\* How a call of load_json or write_json ended: not yet; load_json returned
\* its default, returned the document, or json.load raised JSONDecodeError;
\* write_json returned, or os.replace raised FileNotFoundError.
J_NONE == "none"
J_DEFAULT == "default"
J_DOCUMENT == "document"
J_DECODE_ERROR == "JSONDecodeError"
J_WRITTEN == "written"
J_NO_TMP == "FileNotFoundError"

\* A command is modelled by how its process ends: "ok" exits 0, "fail" does
\* not.
Commands == {"ok", "fail"}

\* With "flaky", a command that exits 0 on some runs and not on others.
AnyCommands == Commands \cup {"flaky"}

VARIABLES
    clock,          \* the wall clock, in ticks
    jobs,           \* the jobs table: id -> row
    backoff_base,   \* WorkerSettings.backoff_base
    config,         \* the config table: key -> row
    wk,             \* per worker: position in Worker.run and its locals
    stop_requested, \* per worker: Worker._stop_requested
    cl,             \* per control-plane process: the command in progress
    execs,          \* history: executions of the command of the job with this id
    ctl,            \* per worker: its control file, absent or with stop false / true
    fs,             \* a JSON side-file on disk and the processes inside write_json
    registry,       \* registry.json: the ids of the registered workers, in order
    sup             \* per supervisor process: the worker command in progress

vars == <<clock, jobs, backoff_base, config, wk, stop_requested, cl, execs, ctl, fs, registry, sup>>

\* ------------------------------------------------------- time as TEXT
\* utc_now_str() is datetime.isoformat(): "....:SS.ffffffZ", but "....:SSZ"
\* when the microsecond is 0.
IsoSec(t) == t \div TicksPerSec
IsoFrac(t) == t % TicksPerSec

\* a <= b for two formatted timestamps under SQLite's BINARY collation: the
\* seconds prefix decides; within one second "Z" sorts after ".".
IsoLeq(a, b) ==
    \/ IsoSec(a) < IsoSec(b)
    \/ /\ IsoSec(a) = IsoSec(b)
       /\ \/ IsoFrac(b) = 0
          \/ IsoFrac(a) # 0 /\ IsoFrac(a) <= IsoFrac(b)

\* _add_seconds: parse, add, format again; exact on ticks.
_add_seconds(t, seconds) == t + seconds * TicksPerSec

RECURSIVE Pow(_, _)
Pow(b, n) == IF n = 0 THEN 1 ELSE b * Pow(b, n - 1)

Min(a, b) == IF a <= b THEN a ELSE b

\* ------------------------------------------------------------ storage
\* init_db: the default of each config key
ConfigDefault(key) ==
    IF key = CONFIG_MAX_RETRIES THEN DEFAULT_MAX_RETRIES
    ELSE IF key = CONFIG_BACKOFF_BASE THEN DEFAULT_BACKOFF_BASE
    ELSE DEFAULT_POLL_INTERVAL

\* The config table once init_db has run on a new database.
InitialisedConfig ==
    [k \in ConfigKeys |-> [value |-> ConfigDefault(k), updated_at |-> 0]]

\* get_config(key): the value of the row, None without a row
get_config(key) == IF key \in DOMAIN config THEN config[key].value ELSE NULL

\* int(get_config(CONFIG_MAX_RETRIES) or DEFAULT_MAX_RETRIES)
max_retries_default ==
    IF get_config(CONFIG_MAX_RETRIES) # NULL THEN get_config(CONFIG_MAX_RETRIES)
    ELSE DEFAULT_MAX_RETRIES

\* The config table with the row of key holding value, written now.
ConfigWith(key, value, now) ==
    [k \in DOMAIN config \cup {key} |->
        IF k = key THEN [value |-> value, updated_at |-> now] ELSE config[k]]

\* an ensure_config_default that writes the default over a row that exists
EnsuredConfigUpsert(key) == ConfigWith(key, ConfigDefault(key), clock)
\* ensure_config_default: INSERT the default only if SELECT finds no row
EnsuredConfig(key) ==
    IF key \in DOMAIN config THEN config
    ELSE ConfigWith(key, ConfigDefault(key), clock)

\* get_job(id) is not None
job_exists(id) == id \in DOMAIN jobs

\* enqueue_job's record from the payload cli.enqueue has completed.
NewRow(command, state, max_retries, now) ==
    [command |-> command, state |-> state, attempts |-> 0,
     max_retries |-> max_retries, created_at |-> now, updated_at |-> now,
     available_at |-> now, processing_started_at |-> NULL,
     completed_at |-> NULL, last_error |-> NULL]

\* a SELECT that leaves out the failed jobs
EligiblePendingOnly(now) ==
    {j \in DOMAIN jobs :
        /\ jobs[j].state = STATE_PENDING
        /\ IsoLeq(jobs[j].available_at, now)}
\* acquire_next_job's SELECT: WHERE state IN (pending, failed) AND available_at <= now
Eligible(now) ==
    {j \in DOMAIN jobs :
        /\ jobs[j].state \in {STATE_PENDING, STATE_FAILED}
        /\ IsoLeq(jobs[j].available_at, now)}

\* ORDER BY created_at LIMIT 1: a row no other eligible row sorts before.
Selected(now) ==
    {j \in Eligible(now) :
        \A k \in Eligible(now) : IsoLeq(jobs[j].created_at, jobs[k].created_at)}

\* acquire_next_job's UPDATE
\* a claim whose UPDATE leaves the state column as it was
ClaimRowKeepsState(row, now) ==
    [row EXCEPT !.processing_started_at = now, !.updated_at = now]
\* a claim whose UPDATE also moves available_at
ClaimRowMovesAvailable(row, now) ==
    [row EXCEPT !.state = STATE_PROCESSING, !.processing_started_at = now,
                !.updated_at = now, !.available_at = now]
\* acquire_next_job's UPDATE
ClaimRow(row, now) ==
    [row EXCEPT !.state = STATE_PROCESSING, !.processing_started_at = now,
                !.updated_at = now]

\* a completion that does not write attempts
CompletedRowNoAttempts(row, attempts, now) ==
    [row EXCEPT !.state = STATE_COMPLETED, !.completed_at = now, !.updated_at = now]
\* mark_job_completed's UPDATE
CompletedRow(row, attempts, now) ==
    [row EXCEPT !.state = STATE_COMPLETED, !.attempts = attempts,
                !.completed_at = now, !.updated_at = now]

\* a new_state that allows one retry more than max_retries
FailedStateOffByOne(attempts, max_retries) ==
    IF attempts <= max_retries + 1 THEN STATE_FAILED ELSE STATE_DEAD
\* mark_job_failed: new_state
FailedState(attempts, max_retries) ==
    IF attempts < max_retries THEN STATE_FAILED ELSE STATE_DEAD

\* a next_available that ignores backoff_seconds
NextAvailableNoBackoff(now, backoff_seconds) == now
\* mark_job_failed: next_available; utc_now_str() is read when it is called
NextAvailable(now, backoff_seconds) ==
    IF backoff_seconds <= 0 THEN clock ELSE _add_seconds(now, backoff_seconds)

\* mark_job_failed's UPDATE
FailedRow(row, attempts, max_retries, error, now, backoff_seconds) ==
    [row EXCEPT !.state = FailedState(attempts, max_retries),
                !.attempts = attempts, !.updated_at = now,
                !.available_at = NextAvailable(now, backoff_seconds),
                !.last_error = Min(error, ERROR_LIMIT)]

\* a reset that also clears last_error
ResetRowClearsError(row, now) ==
    [row EXCEPT !.state = STATE_PENDING, !.attempts = 0, !.updated_at = now,
                !.available_at = now, !.last_error = NULL]
\* a reset that counts a repeated application in attempts
ResetRowCountsRepeat(row, now) ==
    [row EXCEPT !.state = STATE_PENDING,
                !.attempts = IF row.state = STATE_DEAD THEN 0 ELSE row.attempts + 1,
                !.updated_at = now, !.available_at = now]
\* reset_job's UPDATE
ResetRow(row, now) ==
    [row EXCEPT !.state = STATE_PENDING, !.attempts = 0, !.updated_at = now,
                !.available_at = now]

\* ----------------------------------------------------- worker (Worker.run)
\* Worker.run: backoff_seconds = backoff_base ** attempts, passed on only
\* when should_retry
should_retry(attempts, max_retries) == attempts < max_retries
BackoffSeconds(attempts, max_retries) ==
    IF should_retry(attempts, max_retries) THEN Pow(backoff_base, attempts) ELSE 0

\* How the subprocess of a command can end: <<exit_code, length of its
\* output>>, the output lengths drawn from outlens.
Outcomes(command, outlens) ==
    IF command = "ok" THEN {<<0, 0>>}
    ELSE IF command = "fail" THEN {<<1, n>> : n \in outlens}
    ELSE {<<0, 0>>} \cup {<<1, n>> : n \in outlens}

\* an error_message that is the output as it is
ErrorMessageRaw(outlen) == outlen
\* error_message: stderr or stdout, else the synthetic text
ErrorMessage(outlen) == IF outlen = 0 THEN SYNTHETIC_LEN ELSE outlen

IdleWorker ==
    [pc |-> "top", now |-> 0, job |-> NoJob, command |-> "ok", attempts |-> 0,
     max_retries |-> 0, exit_code |-> 0, error |-> 0]

IdleClient == [pc |-> "idle", id |-> NoJob, now |-> 0, result |-> R_NONE]

\* A process that is not inside load_json or write_json.
IdleWriter == [pc |-> "idle", fd |-> NoInode, off |-> 0, result |-> J_NONE]

\* The worker directory before the side-file is first written: path and
\* path.with_suffix(".tmp") name no file.  A file is an inode; its content
\* is the sequence of the chunks written to it, each chunk tagged with the
\* process whose document it belongs to (0 for a hole left by a truncation).
InitFs ==
    [path |-> NoInode, tmp |-> NoInode, data |-> [i \in Inodes |-> << >>],
     wr |-> [p \in Writers |-> IdleWriter]]

\* The command of a client has ended with result r.
Ended(r) == [IdleClient EXCEPT !.result = r]

\* A supervisor process (queuectl worker start / stop, or the web server):
\* the worker id of its _spawn_worker, its local registry as loaded, and the
\* targets its loop has still to go through.
IdleSupervisor ==
    [pc |-> "idle", id |-> NULL, registry |-> << >>, targets |-> << >>,
     result |-> R_NONE]

SupEnded(r) == [IdleSupervisor EXCEPT !.result = r]

\* A worker id that generate_worker_id has not produced yet: no process,
\* no control file.
UnspawnedWorker == [IdleWorker EXCEPT !.pc = "unspawned"]

Init ==
    /\ clock = 0
    /\ jobs = << >>
    /\ backoff_base \in BackoffBases
    /\ config = InitialisedConfig
    /\ wk = [w \in Workers |-> IdleWorker]
    /\ stop_requested = [w \in Workers |-> FALSE]
    /\ cl = [c \in AllClients |-> IdleClient]
    /\ execs = [j \in JobIds |-> 0]
    /\ ctl = [w \in Workers |-> CTL_RUNNING]
    /\ fs = InitFs
    /\ registry = [w \in Workers |-> w]
    /\ sup = [s \in Supervisors |-> IdleSupervisor]

\* A new database, before the first init_db has completed: the tables exist
\* and the config table has no row yet.
InitFresh ==
    /\ clock = 0
    /\ jobs = << >>
    /\ backoff_base \in BackoffBases
    /\ config = << >>
    /\ wk = [w \in Workers |-> IdleWorker]
    /\ stop_requested = [w \in Workers |-> FALSE]
    /\ cl = [c \in AllClients |-> IdleClient]
    /\ execs = [j \in JobIds |-> 0]
    /\ ctl = [w \in Workers |-> CTL_RUNNING]
    /\ fs = InitFs
    /\ registry = [w \in Workers |-> w]
    /\ sup = [s \in Supervisors |-> IdleSupervisor]

\* A new installation: no worker has been started, the registry is empty.
InitSupervisors ==
    /\ clock = 0
    /\ jobs = << >>
    /\ backoff_base \in BackoffBases
    /\ config = InitialisedConfig
    /\ wk = [w \in Workers |-> UnspawnedWorker]
    /\ stop_requested = [w \in Workers |-> FALSE]
    /\ cl = [c \in AllClients |-> IdleClient]
    /\ execs = [j \in JobIds |-> 0]
    /\ ctl = [w \in Workers |-> CTL_ABSENT]
    /\ fs = InitFs
    /\ registry = << >>
    /\ sup = [s \in Supervisors |-> IdleSupervisor]

\* The clock advances.
Tick ==
    /\ clock < MaxTime
    /\ clock' = clock + 1
    /\ UNCHANGED <<fs, ctl, jobs, backoff_base, config, wk, stop_requested, cl, execs, registry, sup>>

\* A job is waiting for its available_at.
Waiting ==
    \E j \in DOMAIN jobs :
        /\ jobs[j].state \in {STATE_PENDING, STATE_FAILED}
        /\ ~IsoLeq(jobs[j].available_at, clock)

\* The clock advances, and does not stop while a job is waiting.
TickWhileWaiting ==
    /\ clock < MaxTime \/ Waiting
    /\ clock' = clock + 1
    /\ UNCHANGED <<fs, ctl, jobs, backoff_base, config, wk, stop_requested, cl, execs, registry, sup>>

\* SIGTERM / SIGINT: _handle_signal
Signal(w) ==
    /\ wk[w].pc # "exited"
    /\ ~stop_requested[w]
    /\ stop_requested' = [stop_requested EXCEPT ![w] = TRUE]
    /\ UNCHANGED <<fs, ctl, clock, jobs, backoff_base, config, wk, cl, execs, registry, sup>>

\* The worker process has ended without leaving its loop in order (killed, or an exception left run); its control
\* file is not removed.
CrashedWorker == [IdleWorker EXCEPT !.pc = "crashed"]

\* a loop condition that never sees a stop request
ShouldStopNever(w) == FALSE
\* _should_stop: the signal flag, else "stop" in the control file
_should_stop(w) == stop_requested[w] \/ ctl[w] = CTL_STOP

\* _should_stop raises: only json.JSONDecodeError is caught, so the
\* UnicodeDecodeError of the read leaves it, and so does the AttributeError
\* of payload.get("stop") when the document is not an object
ShouldStopRaises(w) ==
    ~stop_requested[w] /\ ctl[w] \in {CTL_NOT_OBJECT, CTL_NOT_UTF8}

\* while not self._should_stop(): now = utc_now_str()
WTop(w) ==
    /\ wk[w].pc = "top"
    /\ ~ShouldStopRaises(w)
    /\ wk' = [wk EXCEPT ![w].pc = IF _should_stop(w) THEN "cleanup" ELSE "claim",
                        ![w].now = IF _should_stop(w) THEN 0 ELSE clock]
    /\ UNCHANGED <<fs, ctl, clock, jobs, backoff_base, config, stop_requested, cl, execs, registry, sup>>

\* the loop condition raises: the call of _should_stop is in no try block,
\* the exception leaves run and ends the process
WTopRaises(w) ==
    /\ wk[w].pc = "top"
    /\ ShouldStopRaises(w)
    /\ wk' = [wk EXCEPT ![w] = CrashedWorker]
    /\ UNCHANGED <<fs, ctl, clock, jobs, backoff_base, config, stop_requested, cl, execs, registry, sup>>

\* a return from run that leaves the control file in place
WCleanupKeepsFile(w) ==
    /\ wk[w].pc = "cleanup"
    /\ wk' = [wk EXCEPT ![w].pc = "exited"]
    /\ UNCHANGED <<fs, ctl, clock, jobs, backoff_base, config, stop_requested, cl, execs, registry, sup>>

\* after the loop: the control file is unlinked if it exists, and run returns
WCleanup(w) ==
    /\ wk[w].pc = "cleanup"
    /\ ctl' = [ctl EXCEPT ![w] = CTL_ABSENT]
    /\ wk' = [wk EXCEPT ![w].pc = "exited"]
    /\ UNCHANGED <<fs, clock, jobs, backoff_base, config, stop_requested, cl, execs, registry, sup>>

\* job = acquire_next_job(now); attempts = job.attempts + 1.  Without a job
\* the worker sleeps poll_interval and starts the loop again.
WClaim(w) ==
    /\ wk[w].pc = "claim"
    /\ LET now == wk[w].now IN
       IF Selected(now) = {}
       THEN /\ wk' = [wk EXCEPT ![w] = IdleWorker]
            /\ UNCHANGED jobs
       ELSE \E j \in Selected(now) :
            /\ jobs' = [jobs EXCEPT ![j] = ClaimRow(jobs[j], now)]
            /\ wk' = [wk EXCEPT ![w].pc = "run", ![w].now = 0, ![w].job = j,
                                ![w].command = jobs[j].command,
                                ![w].attempts = jobs[j].attempts + 1,
                                ![w].max_retries = jobs[j].max_retries]
    /\ UNCHANGED <<fs, ctl, clock, backoff_base, config, stop_requested, cl, execs, registry, sup>>

\* subprocess.run(job.command, ...) returns or raises; the utc_now_str() of
\* the mark that follows is read as the subprocess ends
WRun(w, outlens) ==
    /\ wk[w].pc = "run"
    /\ \E oc \in Outcomes(wk[w].command, outlens) :
        wk' = [wk EXCEPT ![w].pc = "mark", ![w].exit_code = oc[1],
                         ![w].error = IF oc[1] = 0 THEN 0 ELSE ErrorMessage(oc[2]),
                         ![w].command = "ok",
                         ![w].now = clock]
    /\ execs' = [execs EXCEPT ![wk[w].job] = Min(@ + 1, ExecsCap)]
    /\ UNCHANGED <<fs, ctl, clock, jobs, backoff_base, config, stop_requested, cl, registry, sup>>

\* The exceptions the handlers after subprocess.run tell apart.
SpawnErrors == {"TimeoutExpired", "FileNotFoundError", "PermissionError", "Exception"}

\* exit_code set by the handler of exception exc
SpawnExitCode(exc) ==
    IF exc = "FileNotFoundError" THEN EXIT_NOT_FOUND
    ELSE IF exc = "PermissionError" THEN EXIT_PERMISSION
    ELSE 0 - 1

\* Length of the error_message set by the handler of exception exc, textlen
\* being the length of job.command, or of str(exc), that it quotes.
SpawnErrorMessage(exc, textlen) ==
    IF exc = "TimeoutExpired" THEN TIMEOUT_LEN
    ELSE IF exc = "FileNotFoundError" THEN NOT_FOUND_LEN + textlen
    ELSE IF exc = "PermissionError" THEN PERMISSION_LEN + textlen
    ELSE OTHER_ERROR_LEN + textlen

\* subprocess.run raises exc (the command hangs for an hour, cannot be
\* found, may not be executed, or the spawn fails otherwise): the handler
\* sets exit_code and error_message and run goes on to mark_job_failed
WRunRaises(w, exc, textlen) ==
    /\ wk[w].pc = "run" /\ wk[w].command # "ok"
    /\ wk' = [wk EXCEPT ![w].pc = "mark", ![w].exit_code = SpawnExitCode(exc),
                        ![w].error = SpawnErrorMessage(exc, textlen),
                        ![w].command = "ok",
                        ![w].now = clock]
    /\ execs' = [execs EXCEPT ![wk[w].job] = Min(@ + 1, ExecsCap)]
    /\ UNCHANGED <<fs, ctl, clock, jobs, backoff_base, config, stop_requested, cl, registry, sup>>

\* SIGKILL or power loss: the worker process ends wherever it is
WKill(w) ==
    /\ wk[w].pc \notin {"unspawned", "crashed", "exited"}
    /\ wk' = [wk EXCEPT ![w] = CrashedWorker]
    /\ UNCHANGED <<fs, ctl, clock, jobs, backoff_base, config, stop_requested, cl, execs, registry, sup>>

\* mark_job_completed(job.id, attempts, now) when the exit code is 0, else
\* mark_job_failed(job.id, attempts, job.max_retries, error, now, backoff);
\* an UPDATE ... WHERE id = ? of an id that is gone changes nothing
WMark(w) ==
    /\ wk[w].pc = "mark"
    /\ LET j == wk[w].job
           a == wk[w].attempts
           m == wk[w].max_retries
       IN  IF j \notin DOMAIN jobs
           THEN UNCHANGED jobs
           ELSE IF wk[w].exit_code = 0
           THEN jobs' = [jobs EXCEPT ![j] = CompletedRow(jobs[j], a, wk[w].now)]
           ELSE jobs' = [jobs EXCEPT ![j] =
                        FailedRow(jobs[j], a, m, wk[w].error, wk[w].now,
                                  BackoffSeconds(a, m))]
    /\ wk' = [wk EXCEPT ![w] = IdleWorker]
    /\ UNCHANGED <<fs, ctl, clock, backoff_base, config, stop_requested, cl, execs, registry, sup>>

\* acquire_next_job raises (sqlite3.OperationalError, "database is locked"
\* after the 30 s busy timeout): the call is in no try block, the exception
\* leaves run and ends the process; the transaction has written nothing
WClaimRaises(w) ==
    /\ wk[w].pc = "claim"
    /\ wk' = [wk EXCEPT ![w] = CrashedWorker]
    /\ UNCHANGED <<fs, ctl, clock, jobs, backoff_base, config, stop_requested, cl, execs, registry, sup>>

\* mark_job_completed raises: the call is inside the try block of
\* subprocess.run, so `except Exception` takes it for a failure of the
\* command: error_message = "Error executing command: " + str(exc),
\* exit_code = -1, and run goes on to mark_job_failed with a new utc_now_str()
WMarkCompletedRaises(w) ==
    /\ wk[w].pc = "mark" /\ wk[w].exit_code = 0
    /\ wk' = [wk EXCEPT ![w].exit_code = 0 - 1, ![w].error = STORE_ERROR_LEN,
                        ![w].now = clock]
    /\ UNCHANGED <<fs, ctl, clock, jobs, backoff_base, config, stop_requested, cl, execs, registry, sup>>

\* mark_job_failed raises: the call is after the try block, the exception
\* leaves run and ends the process; the job stays as the claim left it
WMarkFailedRaises(w) ==
    /\ wk[w].pc = "mark" /\ wk[w].exit_code # 0
    /\ wk' = [wk EXCEPT ![w] = CrashedWorker]
    /\ UNCHANGED <<fs, ctl, clock, jobs, backoff_base, config, stop_requested, cl, execs, registry, sup>>

\* ------------------------------------------ control plane (cli.py, web.py)
\* enqueue / api_enqueue_job: existing = get_job(id), refused when the id is
\* present
EnqueueCheck(c, id) ==
    /\ cl[c].pc = "idle"
    /\ IF job_exists(id)
       THEN cl' = [cl EXCEPT ![c] = Ended(R_EXISTS)]
       ELSE cl' = [cl EXCEPT ![c] = [IdleClient EXCEPT !.pc = "enqueue", !.id = id]]
    /\ UNCHANGED <<fs, ctl, clock, jobs, backoff_base, config, wk, stop_requested, execs, registry, sup>>

\* an INSERT OR REPLACE in place of the INSERT
InsertJobReplaces(c, command, mr, done) ==
    /\ cl[c].pc = "enqueue"
    /\ jobs' = [k \in DOMAIN jobs \cup {cl[c].id} |->
                IF k = cl[c].id THEN NewRow(command, STATE_PENDING, mr, clock)
                ELSE jobs[k]]
    /\ execs' = [execs EXCEPT ![cl[c].id] = 0]
    /\ cl' = [cl EXCEPT ![c] = Ended(done)]
    /\ UNCHANGED <<fs, ctl, clock, backoff_base, config, wk, stop_requested, registry, sup>>

\* enqueue_job(payload): the INSERT; a duplicate id violates the primary key,
\* sqlite3.IntegrityError is raised and nothing is inserted; otherwise the
\* caller ends with its message done
InsertJob(c, command, mr, done) ==
    /\ cl[c].pc = "enqueue"
    /\ LET id == cl[c].id IN
       IF id \in DOMAIN jobs
       THEN /\ UNCHANGED <<jobs, execs>>
            /\ cl' = [cl EXCEPT ![c] = Ended(R_INTEGRITY)]
       ELSE /\ jobs' = [k \in DOMAIN jobs \cup {id} |->
                        IF k = id THEN NewRow(command, STATE_PENDING, mr, clock)
                        ELSE jobs[k]]
            /\ execs' = [execs EXCEPT ![id] = 0]
            /\ cl' = [cl EXCEPT ![c] = Ended(done)]
    /\ UNCHANGED <<fs, ctl, clock, backoff_base, config, wk, stop_requested, registry, sup>>

\* cli enqueue: max_retries is --max-retries when it is not None, else the
\* configured default
CliMaxRetries(max_retries) ==
    IF max_retries # NULL THEN max_retries ELSE max_retries_default

\* api_enqueue_job: max_retries or the configured default
ApiMaxRetries(max_retries) ==
    IF max_retries # NULL /\ max_retries # 0 THEN max_retries ELSE max_retries_default

\* enqueue (cli): the defaults, created_at = utc_now_str(), enqueue_job
EnqueueInsert(c, command, max_retries) ==
    InsertJob(c, command, CliMaxRetries(max_retries), R_ENQUEUED)

\* api_enqueue_job (web): now = utc_now_str(), the payload, enqueue_job
ApiEnqueueInsert(c, command, max_retries) ==
    InsertJob(c, command, ApiMaxRetries(max_retries), R_API_ENQUEUED)

\* a dlq check that accepts a job in any state
InDlqAnyState(id) == job_exists(id)
\* dlq retry: job and job["state"] == STATE_DEAD
InDlq(id) == job_exists(id) /\ jobs[id].state = STATE_DEAD

\* dlq retry / api_retry_job: job = get_job(id); refused unless dead;
\* now = utc_now_str()
RetryCheck(c, id) ==
    /\ cl[c].pc = "idle"
    /\ IF ~InDlq(id)
       THEN cl' = [cl EXCEPT ![c] = Ended(R_NOT_IN_DLQ)]
       ELSE cl' = [cl EXCEPT ![c] =
                    [IdleClient EXCEPT !.pc = "retry", !.id = id, !.now = clock]]
    /\ UNCHANGED <<fs, ctl, clock, jobs, backoff_base, config, wk, stop_requested, execs, registry, sup>>

\* reset_job(job_id, now): UPDATE ... WHERE id = ?
RetryReset(c) ==
    /\ cl[c].pc = "retry"
    /\ LET id == cl[c].id IN
       IF id \in DOMAIN jobs
       THEN jobs' = [jobs EXCEPT ![id] = ResetRow(jobs[id], cl[c].now)]
       ELSE UNCHANGED jobs
    /\ cl' = [cl EXCEPT ![c] = Ended(R_REQUEUED)]
    /\ UNCHANGED <<fs, ctl, clock, backoff_base, config, wk, stop_requested, execs, registry, sup>>

\* delete / api_delete_job: job = get_job(id); refused when absent
DeleteCheck(c, id) ==
    /\ cl[c].pc = "idle"
    /\ IF ~job_exists(id)
       THEN cl' = [cl EXCEPT ![c] = Ended(R_NOT_FOUND)]
       ELSE cl' = [cl EXCEPT ![c] = [IdleClient EXCEPT !.pc = "delete", !.id = id]]
    /\ UNCHANGED <<fs, ctl, clock, jobs, backoff_base, config, wk, stop_requested, execs, registry, sup>>

\* a delete without its WHERE clause
DeleteEveryJob(id) == [k \in {} |-> jobs[k]]
\* delete_job's DELETE FROM jobs WHERE id = ?
DeleteFromJobs(id) == [k \in DOMAIN jobs \ {id} |-> jobs[k]]

\* delete_job(job_id)
DeleteRow(c) ==
    /\ cl[c].pc = "delete"
    /\ jobs' = DeleteFromJobs(cl[c].id)
    /\ cl' = [cl EXCEPT ![c] = Ended(R_DELETED)]
    /\ UNCHANGED <<fs, ctl, clock, backoff_base, config, wk, stop_requested, execs, registry, sup>>

\* worker stop: _request_worker_stop loads the control file (or a default
\* payload when it is absent), sets "stop" and writes it back
RequestWorkerStop(w) ==
    /\ ctl[w] # CTL_STOP
    /\ ctl' = [ctl EXCEPT ![w] = CTL_STOP]
    /\ UNCHANGED <<fs, clock, jobs, backoff_base, config, wk, stop_requested, cl, execs, registry, sup>>

\* _pid_alive(pid): os.kill(pid, 0) finds the process of worker w
_pid_alive(w) == wk[w].pc \notin {"unspawned", "crashed", "exited"}

\* _spawn_worker(worker_id) with a new id from generate_worker_id:
\* write_json(control_file, {"id", "stop": False, "created_at"})
SpawnControl(s, w) ==
    /\ sup[s].pc = "idle"
    /\ wk[w].pc = "unspawned" /\ ctl[w] = CTL_ABSENT
    /\ ctl' = [ctl EXCEPT ![w] = CTL_RUNNING]
    /\ sup' = [sup EXCEPT ![s] = [IdleSupervisor EXCEPT !.pc = "popen", !.id = w]]
    /\ UNCHANGED <<fs, clock, jobs, backoff_base, config, wk, stop_requested, cl, execs, registry>>

\* subprocess.Popen([..., "_worker", "--worker-id", worker_id]): the worker
\* process exists from here on
SpawnPopen(s) ==
    /\ sup[s].pc = "popen"
    /\ wk' = [wk EXCEPT ![sup[s].id] = IdleWorker]
    /\ sup' = [sup EXCEPT ![s].pc = "spawn_load"]
    /\ UNCHANGED <<fs, ctl, clock, jobs, backoff_base, config, stop_requested, cl, execs, registry>>

\* registry = _load_worker_registry()
SpawnLoad(s) ==
    /\ sup[s].pc = "spawn_load"
    /\ sup' = [sup EXCEPT ![s].pc = "spawn_write", ![s].registry = registry]
    /\ UNCHANGED <<fs, ctl, clock, jobs, backoff_base, config, wk, stop_requested, cl, execs, registry>>

\* registry.append({"id", "pid", "started_at"});
\* write_json(WORKER_REGISTRY_FILE, registry)
SpawnWrite(s) ==
    /\ sup[s].pc = "spawn_write"
    /\ registry' = Append(sup[s].registry, sup[s].id)
    /\ sup' = [sup EXCEPT ![s] = SupEnded(R_STARTED)]
    /\ UNCHANGED <<fs, ctl, clock, jobs, backoff_base, config, wk, stop_requested, cl, execs>>

\* `if worker_id:` -- an option that was not given (None) and the empty
\* string are both false
Truthy(worker_id) == worker_id \notin {NULL, EMPTY_ID}

\* targets = registry, or with an id [w for w in registry if w.get("id") == worker_id]
Targets(reg, worker_id) ==
    IF Truthy(worker_id) THEN SelectSeq(reg, LAMBDA e : e = worker_id) ELSE reg

\* worker_stop(worker_id) up to its loop: registry = _load_worker_registry();
\* BadParameter when an id was given and has no entry; "No workers
\* registered" and return when there is no target
StopLoad(s, worker_id) ==
    /\ sup[s].pc = "idle"
    /\ LET targets == Targets(registry, worker_id) IN
       sup' = [sup EXCEPT ![s] =
                IF targets # << >>
                THEN [IdleSupervisor EXCEPT !.pc = "request", !.targets = targets]
                ELSE IF Truthy(worker_id) THEN SupEnded(R_WORKER_NOT_FOUND)
                ELSE SupEnded(R_NO_WORKERS)]
    /\ UNCHANGED <<fs, ctl, clock, jobs, backoff_base, config, wk, stop_requested, cl, execs, registry>>

\* for worker in targets: _request_worker_stop(worker.get("id")), which is
\* payload = load_json(control_file, {"id": worker_id}); payload["stop"] =
\* True; write_json(control_file, payload).  load_json raises on a file
\* that is not JSON, the assignment on a document that is not an object.
\* After the last target the command goes on to _cleanup_worker_registry.
StopRequest(s) ==
    /\ sup[s].pc = "request"
    /\ LET w == Head(sup[s].targets) IN
       IF ctl[w] \in {CTL_GARBLED, CTL_NOT_OBJECT, CTL_NOT_UTF8}
       THEN /\ sup' = [sup EXCEPT ![s] = SupEnded(R_STOP_RAISED)]
            /\ UNCHANGED ctl
       ELSE /\ ctl' = [ctl EXCEPT ![w] = CTL_STOP]
            /\ sup' = [sup EXCEPT ![s].targets = Tail(@),
                                   ![s].pc = IF Len(sup[s].targets) = 1
                                             THEN "sweep_load" ELSE "request"]
    /\ UNCHANGED <<fs, clock, jobs, backoff_base, config, wk, stop_requested, cl, execs, registry>>

\* _cleanup_worker_registry: registry = [entry for entry in
\* _load_worker_registry() if _pid_alive(entry.get("pid"))]
SweepLoad(s) ==
    /\ sup[s].pc = "sweep_load"
    /\ sup' = [sup EXCEPT ![s].pc = "sweep_write",
                           ![s].registry = SelectSeq(registry, _pid_alive)]
    /\ UNCHANGED <<fs, ctl, clock, jobs, backoff_base, config, wk, stop_requested, cl, execs, registry>>

\* write_json(WORKER_REGISTRY_FILE, registry); "Stop signal sent"
SweepWrite(s) ==
    /\ sup[s].pc = "sweep_write"
    /\ registry' = sup[s].registry
    /\ sup' = [sup EXCEPT ![s] = SupEnded(R_STOP_SENT)]
    /\ UNCHANGED <<fs, ctl, clock, jobs, backoff_base, config, wk, stop_requested, cl, execs>>

\* Any process of the user may write a control file (an editor, a script, a
\* concurrent write_json that leaves a truncated document): the file of
\* worker w now holds content
ControlFileWritten(w, content) ==
    /\ content # ctl[w]
    /\ ctl' = [ctl EXCEPT ![w] = content]
    /\ UNCHANGED <<fs, clock, jobs, backoff_base, config, wk, stop_requested, cl, execs, registry, sup>>

\* init_db of any process (every cli command, every worker start):
\* ensure_config_default(key, default), one transaction per key
ensure_config_default(key) ==
    /\ config' = EnsuredConfig(key)
    /\ UNCHANGED <<fs, clock, jobs, backoff_base, wk, stop_requested, cl, execs, ctl, registry, sup>>

\* config set / api_set_config: set_config(key, value), an INSERT ... ON
\* CONFLICT(key) DO UPDATE of the value and of updated_at
set_config(key, value) ==
    /\ config' = ConfigWith(key, value, clock)
    /\ UNCHANGED <<fs, clock, jobs, backoff_base, wk, stop_requested, cl, execs, ctl, registry, sup>>

\* ------------------------------------------- JSON side-files (utils.py)
\* The inodes that a name or an open file descriptor refers to.
InUse(f) == {f.path, f.tmp} \cup {f.wr[p].fd : p \in Writers}

\* The file system drops the content of an inode nothing refers to.
Reclaim(f) ==
    [f EXCEPT !.data = [i \in Inodes |-> IF i \in InUse(f) THEN f.data[i] ELSE << >>]]

\* The inode a newly created file gets.
FreeInode == CHOOSE i \in Inodes \ InUse(fs) : \A k \in Inodes \ InUse(fs) : i <= k

\* The content after chunk k of document d is written at its offset.
WriteAt(content, k, d) ==
    [i \in 1 .. (IF Len(content) >= k THEN Len(content) ELSE k) |->
        IF i = k THEN d ELSE IF i <= Len(content) THEN content[i] ELSE 0]

\* json.load accepts the content: every chunk of one document is there.
Complete(content) ==
    /\ Len(content) = NumChunks
    /\ \E d \in Writers : \A i \in 1 .. NumChunks : content[i] = d

OtherThanFs == <<clock, jobs, backoff_base, config, wk, stop_requested, cl, execs, ctl, registry, sup>>

\* load_json(path, default): the default if the path does not exist, else
\* json.load of the file
LoadJson(p) ==
    /\ fs.wr[p].pc = "idle"
    /\ fs' = [fs EXCEPT !.wr[p].result =
                IF fs.path = NoInode THEN J_DEFAULT
                ELSE IF Complete(fs.data[fs.path]) THEN J_DOCUMENT
                ELSE J_DECODE_ERROR]
    /\ UNCHANGED OtherThanFs

\* write_json: tmp_path.open("w") creates the file path.with_suffix(".tmp"),
\* or truncates it when it exists
WriteJsonOpen(p) ==
    /\ fs.wr[p].pc = "idle"
    /\ LET i == IF fs.tmp = NoInode THEN FreeInode ELSE fs.tmp IN
       fs' = [fs EXCEPT !.tmp = i, !.data[i] = << >>,
                        !.wr[p] = [pc |-> "dump", fd |-> i, off |-> 0,
                                   result |-> J_NONE]]
    /\ UNCHANGED OtherThanFs

\* write_json: json.dump writes the document through the buffered file, one
\* chunk at a time at the descriptor's offset; leaving the with block
\* flushes the last chunk and closes the descriptor
WriteJsonDump(p) ==
    /\ fs.wr[p].pc = "dump"
    /\ LET i == fs.wr[p].fd
           k == fs.wr[p].off + 1
           written == [fs EXCEPT !.data[i] = WriteAt(fs.data[i], k, p)]
       IN  fs' = IF k < NumChunks
                 THEN [written EXCEPT !.wr[p].off = k]
                 ELSE Reclaim([written EXCEPT !.wr[p] =
                                [IdleWriter EXCEPT !.pc = "replace"]])
    /\ UNCHANGED OtherThanFs

\* write_json: os.replace(tmp_path, path) renames the temporary file over
\* the path; FileNotFoundError when the temporary name is gone
WriteJsonReplace(p) ==
    /\ fs.wr[p].pc = "replace"
    /\ fs' = IF fs.tmp = NoInode
             THEN [fs EXCEPT !.wr[p] = [IdleWriter EXCEPT !.result = J_NO_TMP]]
             ELSE Reclaim([fs EXCEPT !.path = fs.tmp, !.tmp = NoInode,
                                     !.wr[p] = [IdleWriter EXCEPT !.result = J_WRITTEN]])
    /\ UNCHANGED OtherThanFs

MaxRetriesInputs == (0 .. MaxRetries) \cup {NULL}
ConfigValues == 0 .. MaxRetries
ShortOutput == {0}
LongLen == ERROR_LIMIT + 1
AnyOutput == {0, 1, LongLen}
TextLens == {1, LongLen}

\* The queue engine: the workers, and clients that enqueue jobs with an
\* explicit --max-retries.
NextWorkers ==
    \/ Tick
    \/ \E w \in Workers : WTop(w)
    \/ \E w \in Workers : WClaim(w)
    \/ \E w \in Workers : WRun(w, ShortOutput)
    \/ \E w \in Workers : WMark(w)
    \/ \E c \in Clients, id \in JobIds : EnqueueCheck(c, id)
    \/ \E c \in Clients, cmd \in Commands, mr \in MaxRetriesInputs :
            EnqueueInsert(c, cmd, mr)

SpecWorkers == Init /\ [][NextWorkers]_vars

\* The whole system: the workers and the control-plane commands enqueue,
\* dlq retry and delete, on the ids SysJobIds.
Next ==
    \/ Tick
    \/ \E w \in Workers : WTop(w)
    \/ \E w \in Workers : WClaim(w)
    \/ \E w \in Workers : WRun(w, ShortOutput)
    \/ \E w \in Workers : WMark(w)
    \/ \E c \in Clients, id \in SysJobIds : EnqueueCheck(c, id)
    \/ \E c \in Clients, cmd \in Commands, mr \in 0 .. MaxRetries :
            EnqueueInsert(c, cmd, mr)
    \/ \E c \in Clients, id \in SysJobIds : RetryCheck(c, id)
    \/ \E c \in Clients : RetryReset(c)
    \/ \E c \in Clients, id \in SysJobIds : DeleteCheck(c, id)
    \/ \E c \in Clients : DeleteRow(c)

Spec == Init /\ [][Next]_vars

\* The control plane alone, no worker started: CtlClients clients issuing
\* enqueue (cli and web) and delete on the ids JobIds.
NextClients ==
    \/ Tick
    \/ \E c \in CtlClients, id \in JobIds : EnqueueCheck(c, id)
    \/ \E c \in CtlClients, cmd \in Commands, mr \in MaxRetriesInputs :
            EnqueueInsert(c, cmd, mr)
    \/ \E c \in CtlClients, cmd \in Commands, mr \in MaxRetriesInputs :
            ApiEnqueueInsert(c, cmd, mr)
    \/ \E c \in CtlClients, id \in JobIds : DeleteCheck(c, id)
    \/ \E c \in CtlClients : DeleteRow(c)

SpecClients == Init /\ [][NextClients]_vars

\* The dead letter queue under concurrency: the workers CtlWorkers, and
\* CtlClients clients that enqueue and issue dlq retry on the ids SysJobIds.
NextRetry ==
    \/ Tick
    \/ \E w \in CtlWorkers : WTop(w)
    \/ \E w \in CtlWorkers : WClaim(w)
    \/ \E w \in CtlWorkers : WRun(w, ShortOutput)
    \/ \E w \in CtlWorkers : WMark(w)
    \/ \E c \in CtlClients, id \in SysJobIds : EnqueueCheck(c, id)
    \/ \E c \in CtlClients, cmd \in AnyCommands, mr \in 0 .. MaxRetries :
            EnqueueInsert(c, cmd, mr)
    \/ \E c \in CtlClients, id \in SysJobIds : RetryCheck(c, id)
    \/ \E c \in CtlClients : RetryReset(c)

SpecRetry == Init /\ [][NextRetry]_vars

\* Worker lifecycle: the workers StopWorkers with jobs enqueued on the ids
\* SysJobIds, stop requests through the control file (worker stop) and
\* through a signal.
NextStop ==
    \/ Tick
    \/ \E w \in StopWorkers : WTop(w)
    \/ \E w \in StopWorkers : WClaim(w)
    \/ \E w \in StopWorkers : WRun(w, ShortOutput)
    \/ \E w \in StopWorkers : WMark(w)
    \/ \E w \in StopWorkers : WCleanup(w)
    \/ \E w \in StopWorkers : Signal(w)
    \/ \E w \in StopWorkers : RequestWorkerStop(w)
    \/ \E c \in Clients, id \in SysJobIds : EnqueueCheck(c, id)
    \/ \E c \in Clients, cmd \in Commands, mr \in 0 .. MaxRetries :
            EnqueueInsert(c, cmd, mr)

SpecStop == Init /\ [][NextStop]_vars

\* A worker process that is alive is scheduled, and a command it runs
\* terminates: each step of Worker.run that is enabled is eventually taken.
WorkerFairness ==
    \A w \in StopWorkers :
        /\ WF_vars(WTop(w))
        /\ WF_vars(WClaim(w))
        /\ WF_vars(WRun(w, ShortOutput))
        /\ WF_vars(WMark(w))
        /\ WF_vars(WCleanup(w))

SpecStopFair == SpecStop /\ WorkerFairness

\* One worker whose control file is written by other processes with any
\* content while it runs.
NextControl ==
    \/ Tick
    \/ \E w \in StopWorkers : WTop(w)
    \/ \E w \in StopWorkers : WTopRaises(w)
    \/ \E w \in StopWorkers : WClaim(w)
    \/ \E w \in StopWorkers : WRun(w, ShortOutput)
    \/ \E w \in StopWorkers : WMark(w)
    \/ \E w \in StopWorkers : WCleanup(w)
    \/ \E w \in StopWorkers : Signal(w)
    \/ \E w \in StopWorkers, content \in ControlContents :
            ControlFileWritten(w, content)
    \/ \E c \in Clients, id \in SysJobIds : EnqueueCheck(c, id)
    \/ \E c \in Clients, cmd \in Commands, mr \in 0 .. MaxRetries :
            EnqueueInsert(c, cmd, mr)

SpecControl == Init /\ [][NextControl]_vars

\* The arguments of worker stop: no --id, --id "", or --id with a worker id.
StopIds == Workers \cup {NULL, EMPTY_ID}

\* Supervisor processes that start and stop workers at the same time, and
\* the workers they start, which poll an empty queue, obey their control
\* file, and may be killed.
NextSupervisors ==
    \/ \E s \in Supervisors, w \in Workers : SpawnControl(s, w)
    \/ \E s \in Supervisors : SpawnPopen(s)
    \/ \E s \in Supervisors : SpawnLoad(s)
    \/ \E s \in Supervisors : SpawnWrite(s)
    \/ \E s \in Supervisors, worker_id \in StopIds : StopLoad(s, worker_id)
    \/ \E s \in Supervisors : StopRequest(s)
    \/ \E s \in Supervisors : SweepLoad(s)
    \/ \E s \in Supervisors : SweepWrite(s)
    \/ \E w \in Workers : WTop(w)
    \/ \E w \in Workers : WClaim(w)
    \/ \E w \in Workers : WCleanup(w)
    \/ \E w \in Workers : WKill(w)

SpecSupervisors == InitSupervisors /\ [][NextSupervisors]_vars

\* One JSON side-file (the registry, or the control file of one worker)
\* read and written by the processes Writers at the same time.
NextFiles ==
    \/ \E p \in Writers : LoadJson(p)
    \/ \E p \in Writers : WriteJsonOpen(p)
    \/ \E p \in Writers : WriteJsonDump(p)
    \/ \E p \in Writers : WriteJsonReplace(p)

SpecFiles == Init /\ [][NextFiles]_vars

\* One worker that keeps running, and clients that enqueue jobs on the ids
\* SysJobIds; nobody deletes or resets a job.  Time passes, the worker
\* process is scheduled and every command terminates.
NextLive ==
    \/ TickWhileWaiting
    \/ \E w \in StopWorkers : WTop(w)
    \/ \E w \in StopWorkers : WClaim(w)
    \/ \E w \in StopWorkers : WRun(w, ShortOutput)
    \/ \E w \in StopWorkers : WMark(w)
    \/ \E c \in Clients, id \in SysJobIds : EnqueueCheck(c, id)
    \/ \E c \in Clients, cmd \in AnyCommands, mr \in 0 .. MaxRetries :
            EnqueueInsert(c, cmd, mr)

SpecLive ==
    Init /\ [][NextLive]_vars /\ WorkerFairness /\ WF_vars(TickWhileWaiting)

\* A worker whose store calls can fail, and clients that enqueue jobs on the
\* ids SysJobIds.
NextStoreErrors ==
    \/ Tick
    \/ \E w \in CtlWorkers : WTop(w)
    \/ \E w \in CtlWorkers : WClaim(w)
    \/ \E w \in CtlWorkers : WRun(w, ShortOutput)
    \/ \E w \in CtlWorkers : WMark(w)
    \/ \E w \in CtlWorkers : WClaimRaises(w)
    \/ \E w \in CtlWorkers : WMarkCompletedRaises(w)
    \/ \E w \in CtlWorkers : WMarkFailedRaises(w)
    \/ \E c \in Clients, id \in SysJobIds : EnqueueCheck(c, id)
    \/ \E c \in Clients, cmd \in Commands, mr \in 0 .. MaxRetries :
            EnqueueInsert(c, cmd, mr)

SpecStoreErrors == Init /\ [][NextStoreErrors]_vars

\* Worker crashes: the workers Workers, any of which can be killed, and a
\* client that enqueues and issues dlq retry on the ids SysJobIds.
NextCrash ==
    \/ Tick
    \/ \E w \in Workers : WTop(w)
    \/ \E w \in Workers : WClaim(w)
    \/ \E w \in Workers : WRun(w, ShortOutput)
    \/ \E w \in Workers : WMark(w)
    \/ \E w \in Workers : WKill(w)
    \/ \E c \in Clients, id \in SysJobIds : EnqueueCheck(c, id)
    \/ \E c \in Clients, cmd \in Commands, mr \in 0 .. MaxRetries :
            EnqueueInsert(c, cmd, mr)
    \/ \E c \in Clients, id \in SysJobIds : RetryCheck(c, id)
    \/ \E c \in Clients : RetryReset(c)

SpecCrash == Init /\ [][NextCrash]_vars

\* Every way a command can end: one worker, jobs on the ids SysJobIds, output
\* of any length and every exception of subprocess.run.
NextOutcomes ==
    \/ Tick
    \/ \E w \in CtlWorkers : WTop(w)
    \/ \E w \in CtlWorkers : WClaim(w)
    \/ \E w \in CtlWorkers : WRun(w, AnyOutput)
    \/ \E w \in CtlWorkers, exc \in SpawnErrors, n \in TextLens : WRunRaises(w, exc, n)
    \/ \E w \in CtlWorkers : WMark(w)
    \/ \E c \in Clients, id \in SysJobIds : EnqueueCheck(c, id)
    \/ \E c \in Clients, cmd \in AnyCommands, mr \in 0 .. MaxRetries :
            EnqueueInsert(c, cmd, mr)

SpecOutcomes == Init /\ [][NextOutcomes]_vars

\* The config table of a new database, with init_db calls and config set
\* commands of any number of processes interleaved.
NextConfig ==
    \/ Tick
    \/ \E k \in ConfigKeys : ensure_config_default(k)
    \/ \E k \in ConfigKeys, v \in ConfigValues : set_config(k, v)

SpecConfig == InitFresh /\ [][NextConfig]_vars

\* ============================================================== claims
\* The workers that hold job id: they claimed it and have not yet marked it.
Holders(id) == {w \in Workers : wk[w].job = id}

\* C1: with workers and enqueuers only, no job is held by two workers at a
\* time: a row in processing is held by exactly one worker, a held row is in
\* processing, and so no claim returns a job another worker still holds.
C1_AtMostOneWorker ==
    \A id \in JobIds :
        /\ Cardinality(Holders(id)) <= 1
        /\ Holders(id) # {} => id \in DOMAIN jobs /\ jobs[id].state = STATE_PROCESSING
        /\ (id \in DOMAIN jobs /\ jobs[id].state = STATE_PROCESSING)
              => Cardinality(Holders(id)) = 1

\* Two workers hold two different jobs at the same time.
C1_Witness ==
    \E w1, w2 \in Workers :
        /\ w1 # w2
        /\ wk[w1].job # NoJob /\ wk[w2].job # NoJob
        /\ wk[w1].pc = "run" /\ wk[w2].pc = "mark"

\* C2 as claimed: in every reachable state a dead job has
\* attempts > max_retries.
C2_DeadHasExhaustedRetries ==
    \A id \in DOMAIN jobs :
        jobs[id].state = STATE_DEAD => jobs[id].attempts > jobs[id].max_retries

\* C3 as claimed: a job whose command always fails and that is dead was
\* executed max_retries + 1 times, has attempts = max_retries + 1 and a
\* non-empty last_error.
C3_DeadAfterAllRetries ==
    \A id \in DOMAIN jobs :
        (jobs[id].command = "fail" /\ jobs[id].state = STATE_DEAD) =>
            /\ execs[id] = jobs[id].max_retries + 1
            /\ jobs[id].attempts = jobs[id].max_retries + 1
            /\ jobs[id].last_error # NULL /\ jobs[id].last_error > 0

\* C4: with two workers, a job whose command exits 0 is executed at most
\* once, is never failed or dead, is completed only after exactly one
\* execution and then has attempts = 1; and its row, once completed, is
\* never written again (it becomes completed exactly once).
C4_OkJobState(id) ==
    jobs[id].command = "ok" =>
        /\ execs[id] <= 1
        /\ jobs[id].state \notin {STATE_FAILED, STATE_DEAD}
        /\ jobs[id].state = STATE_COMPLETED =>
              execs[id] = 1 /\ jobs[id].attempts = 1
        /\ jobs[id].state # STATE_COMPLETED => jobs[id].attempts = 0
C4_ExactlyOnce ==
    /\ [](\A id \in DOMAIN jobs : C4_OkJobState(id))
    /\ [][\A id \in DOMAIN jobs :
            (jobs[id].command = "ok" /\ jobs[id].state = STATE_COMPLETED)
                => id \in DOMAIN jobs' /\ jobs'[id] = jobs[id]]_vars

\* Every job id holds a completed job whose command exits 0, and the two
\* were completed at different times.
C4_Witness ==
    /\ DOMAIN jobs = JobIds
    /\ \A id \in JobIds :
        jobs[id].command = "ok" /\ jobs[id].state = STATE_COMPLETED
    /\ \E a, b \in JobIds : jobs[a].completed_at # jobs[b].completed_at

\* C5 as claimed: a row becomes dead only from processing (never from pending
\* without a claim in between), and a dead row changes only by a reset, which
\* leaves it pending with attempts = 0, or by its deletion.
C5_DeadOnlyAfterClaim ==
    [][\A id \in DOMAIN jobs :
        /\ (id \in DOMAIN jobs' /\ jobs[id].state # STATE_DEAD
                /\ jobs'[id].state = STATE_DEAD)
              => jobs[id].state = STATE_PROCESSING
        /\ (id \in DOMAIN jobs' /\ jobs[id].state = STATE_DEAD
                /\ jobs'[id] # jobs[id])
              => jobs'[id].state = STATE_PENDING /\ jobs'[id].attempts = 0]_vars

\* The worker w claims a job in this step.
ClaimStep(w, id) ==
    /\ wk[w].pc = "claim" /\ wk'[w].pc = "run" /\ wk'[w].job = id

\* C6 as claimed: a claim made with now returns a job that is pending or
\* failed and whose available_at is not after now, and no job that is
\* eligible at now was created before it.
C6_ClaimsEligibleOldest ==
    [][\A w \in Workers, id \in JobIds :
        ClaimStep(w, id) =>
            /\ jobs[id].state \in {STATE_PENDING, STATE_FAILED}
            /\ jobs[id].available_at <= wk[w].now
            /\ \A k \in DOMAIN jobs :
                (jobs[k].state \in {STATE_PENDING, STATE_FAILED}
                    /\ jobs[k].available_at <= wk[w].now)
                  => jobs[id].created_at <= jobs[k].created_at]_vars

\* The worker w records a failure that leaves job id retryable.
RetryableFailureStep(w, id) ==
    /\ wk[w].pc = "mark" /\ wk[w].job = id /\ wk[w].exit_code # 0
    /\ id \in DOMAIN jobs /\ id \in DOMAIN jobs'
    /\ jobs'[id].state = STATE_FAILED

\* C7 as claimed: a failure that leaves the job retryable after attempt a
\* sets available_at to at least the failure time plus backoff_base ^ a
\* seconds, and a failed job is never claimed before its available_at.
C7_BackoffRespected ==
    [][\A w \in Workers, id \in JobIds :
        /\ RetryableFailureStep(w, id) =>
              jobs'[id].available_at >=
                  wk[w].now + Pow(backoff_base, wk[w].attempts) * TicksPerSec
        /\ (ClaimStep(w, id) /\ jobs[id].state = STATE_FAILED) =>
              clock >= jobs[id].available_at]_vars

\* C8 as claimed: with backoff_base = 1 a retryable failure leaves
\* available_at not later than the failure time.
C8_BaseOneImmediatelyEligible ==
    [][\A w \in Workers, id \in JobIds :
        (backoff_base = 1 /\ RetryableFailureStep(w, id))
            => jobs'[id].available_at <= wk[w].now]_vars

\* C8 amended: with backoff_base = 1 a retryable failure sets available_at
\* to exactly one second after the failure time, whatever the attempt.
C8_BaseOneConstantDelay ==
    [][\A w \in Workers, id \in JobIds :
        (backoff_base = 1 /\ RetryableFailureStep(w, id))
            => jobs'[id].available_at = wk[w].now + TicksPerSec]_vars

\* A job failed under backoff_base = 1 and is waiting for its retry.
C8_Witness ==
    /\ backoff_base = 1
    /\ \E id \in DOMAIN jobs :
        /\ jobs[id].state = STATE_FAILED /\ jobs[id].attempts = 1
        /\ jobs[id].available_at = jobs[id].updated_at + TicksPerSec

\* C9: a job with max_retries = 0 is never failed and is executed at most
\* once; once its failed execution is recorded it is dead, and it becomes
\* dead from processing.
C9_JobState(id) ==
    jobs[id].max_retries = 0 =>
        /\ jobs[id].state # STATE_FAILED
        /\ execs[id] <= 1
        /\ (jobs[id].command = "fail" /\ execs[id] = 1 /\ Holders(id) = {})
              => jobs[id].state = STATE_DEAD /\ jobs[id].attempts = 1
C9_ZeroRetriesDirectlyDead ==
    /\ [](\A id \in DOMAIN jobs : C9_JobState(id))
    /\ [][\A id \in DOMAIN jobs :
            (jobs[id].max_retries = 0 /\ id \in DOMAIN jobs'
                /\ jobs[id].state # STATE_DEAD /\ jobs'[id].state = STATE_DEAD)
              => jobs[id].state = STATE_PROCESSING]_vars

\* A job with max_retries = 0 is dead after its one execution, while the
\* workers keep polling.
C9_Witness ==
    \E id \in DOMAIN jobs :
        /\ jobs[id].max_retries = 0 /\ jobs[id].state = STATE_DEAD
        /\ execs[id] = 1
        /\ \E w \in Workers : wk[w].pc = "claim" /\ wk[w].now > jobs[id].updated_at

\* C10 as claimed: a row becomes completed only from processing, with
\* completed_at set and attempts one more than the claim returned (the row's
\* attempts while it is processing).
C10_CompletedFollowsProcessing ==
    [][\A id \in DOMAIN jobs :
        (id \in DOMAIN jobs' /\ jobs'[id].state = STATE_COMPLETED
            /\ jobs'[id] # jobs[id])
          => /\ jobs[id].state = STATE_PROCESSING
             /\ jobs'[id].completed_at # NULL
             /\ jobs'[id].attempts = jobs[id].attempts + 1]_vars

\* C11 as claimed: in the whole system a completed row is never written
\* again; it only changes by being deleted.
C11_CompletedIsFinal ==
    [][\A id \in DOMAIN jobs :
        (jobs[id].state = STATE_COMPLETED /\ id \in DOMAIN jobs')
            => jobs'[id] = jobs[id]]_vars

\* The workers that are executing the command of job id.
Executing(id) == {w \in Workers : wk[w].job = id /\ wk[w].pc = "run"}

\* C12 as claimed: with concurrent dlq retry callers a processing row is held
\* by exactly one worker, no two workers execute the command of one job at
\* the same time, and a job is not pending or failed while a worker executes
\* it.
C12_ProcessingHeldByOne ==
    \A id \in DOMAIN jobs :
        /\ jobs[id].state = STATE_PROCESSING => Cardinality(Holders(id)) = 1
        /\ Cardinality(Executing(id)) <= 1
        /\ Executing(id) # {} => jobs[id].state \notin {STATE_PENDING, STATE_FAILED}

\* The client c commits the reset_job of its dlq retry of job id.
RetryResetStep(c, id) ==
    /\ cl[c].pc = "retry" /\ cl[c].id = id /\ cl'[c].pc = "idle"
    /\ id \in DOMAIN jobs

C14_ResetIdempotent ==
    [][\A c \in AllClients, id \in JobIds :
        RetryResetStep(c, id) =>
            /\ cl'[c].result = R_REQUEUED
            /\ jobs'[id].state = STATE_PENDING /\ jobs'[id].attempts = 0
            /\ ResetRow(jobs'[id], cl[c].now) = jobs'[id]
            /\ (jobs[id].state = STATE_PENDING /\ jobs[id].attempts = 0) =>
                  jobs'[id] = [jobs[id] EXCEPT !.updated_at = cl[c].now,
                                               !.available_at = cl[c].now]
            /\ (jobs[id].state = STATE_PENDING /\ jobs[id].attempts = 0
                    /\ jobs[id].updated_at = cl[c].now
                    /\ jobs[id].available_at = cl[c].now) =>
                  jobs'[id] = jobs[id]]_vars

\* One dlq retry has requeued the dead job, no worker has touched it since,
\* and another caller that read it as dead is about to apply reset_job to it
\* a second time.
C14_Witness ==
    \E id \in DOMAIN jobs, c1, c2 \in CtlClients :
        /\ jobs[id].state = STATE_PENDING /\ jobs[id].attempts = 0
        /\ jobs[id].last_error # NULL
        /\ cl[c1].result = R_REQUEUED
        /\ cl[c2].pc = "retry" /\ cl[c2].id = id

\* C15: a dlq retry proceeds to reset_job only for an id that is present and
\* dead; for an absent id or a job in another state the command ends with
\* "Job not found in DLQ", and a command that ends so changes no job.
C15_RetryRefused ==
    /\ [][\A c \in AllClients, id \in JobIds :
            (cl[c].pc = "idle" /\ cl'[c].pc = "retry" /\ cl'[c].id = id)
                => id \in DOMAIN jobs /\ jobs[id].state = STATE_DEAD]_vars
    /\ [][\A c \in AllClients, id \in JobIds :
            (RetryCheck(c, id)
                /\ (id \notin DOMAIN jobs \/ jobs[id].state # STATE_DEAD))
                => cl'[c] = Ended(R_NOT_IN_DLQ) /\ jobs' = jobs]_vars
    /\ [][\A c \in AllClients :
            (cl'[c] # cl[c] /\ cl'[c].result = R_NOT_IN_DLQ) => jobs' = jobs]_vars

\* A dlq retry of a job that is present but not dead has been refused, and
\* so has one of an id that is absent.
C15_Witness ==
    /\ \E c \in AllClients :
        /\ cl[c].result = R_NOT_IN_DLQ
        /\ \E id \in DOMAIN jobs : jobs[id].state = STATE_COMPLETED
    /\ \E c \in AllClients : cl[c].result = R_NOT_IN_DLQ /\ cl[c].pc = "idle"

\* The client c commits the delete_job of its delete of job id.
DeleteStep(c, id) ==
    /\ cl[c].pc = "delete" /\ cl[c].id = id /\ cl'[c].pc = "idle"

\* C16: after delete_job(id) the id is absent and every other job is as it
\* was; delete_job of an id that is already absent ends without an error and
\* changes nothing.
C16_DeleteThenAbsent ==
    [][\A c \in AllClients, id \in JobIds :
        DeleteStep(c, id) =>
            /\ id \notin DOMAIN jobs'
            /\ cl'[c].result = R_DELETED
            /\ DOMAIN jobs' = DOMAIN jobs \ {id}
            /\ \A k \in DOMAIN jobs' : jobs'[k] = jobs[k]
            /\ id \notin DOMAIN jobs => jobs' = jobs]_vars

\* One delete has removed the job, another job is present, and a second
\* caller that saw the job before its removal is about to call delete_job on
\* the now missing id.
C16_Witness ==
    \E id, k \in JobIds, c1, c2 \in CtlClients :
        /\ id \notin DOMAIN jobs /\ k \in DOMAIN jobs
        /\ cl[c1].result = R_DELETED
        /\ cl[c2].pc = "delete" /\ cl[c2].id = id

\* The client c commits the enqueue_job of its enqueue of job id.
InsertStep(c, id) ==
    /\ cl[c].pc = "enqueue" /\ cl[c].id = id /\ cl'[c].pc = "idle"

C18_EnqueueDefaults ==
    [][\A c \in AllClients, cmd \in Commands, mr \in MaxRetriesInputs :
        ((EnqueueInsert(c, cmd, mr) \/ ApiEnqueueInsert(c, cmd, mr))
            /\ cl[c].id \notin DOMAIN jobs)
          => /\ cl[c].id \in DOMAIN jobs'
             /\ jobs'[cl[c].id] =
                  NewRow(cmd, STATE_PENDING,
                         IF mr = NULL THEN max_retries_default ELSE mr, clock)]_vars

\* The stop flag of worker w is set: by a signal or in its control file.
StopFlag(w) == stop_requested[w] \/ ctl[w] = CTL_STOP

\* C19: a stop request changes no worker and no job; a worker that executes
\* a job goes on to record its outcome (completed, failed or dead) and
\* returns to the top of its loop; a worker that evaluates its loop condition
\* with the stop flag set leaves the loop, and from then on it claims
\* nothing and holds no job.
C19_StopAfterCurrentJob ==
    /\ [][\A w \in Workers :
            (StopFlag(w)' /\ ~StopFlag(w)) => wk' = wk /\ jobs' = jobs]_vars
    /\ [][\A w \in Workers :
            /\ (wk[w].pc = "run" /\ wk'[w] # wk[w]) =>
                  wk'[w].pc = "mark" /\ wk'[w].job = wk[w].job
            /\ (wk[w].pc = "mark" /\ wk'[w] # wk[w]) =>
                  /\ wk'[w].pc = "top"
                  /\ wk[w].job \in DOMAIN jobs =>
                        jobs'[wk[w].job].state =
                            (IF wk[w].exit_code = 0 THEN STATE_COMPLETED
                             ELSE FailedState(wk[w].attempts, wk[w].max_retries))
            /\ (wk[w].pc = "top" /\ StopFlag(w) /\ wk'[w] # wk[w]) =>
                  wk'[w].pc = "cleanup" /\ jobs' = jobs
            /\ wk[w].pc \in {"cleanup", "exited"} =>
                  /\ wk'[w].pc \in {"cleanup", "exited"}
                  /\ wk'[w].job = NoJob]_vars

\* The stop flag is set while the worker holds a job it has executed and has
\* yet to record.
C19_Witness ==
    \E w \in StopWorkers :
        /\ StopFlag(w) /\ wk[w].pc = "mark"
        /\ wk[w].job \in DOMAIN jobs /\ jobs[wk[w].job].state = STATE_PROCESSING

\* C20: under WorkerFairness, once "stop" is true in the control file of a
\* worker that has not exited, the worker eventually has exited with its
\* control file absent.
C20_StopLeadsToExit ==
    \A w \in StopWorkers :
        (ctl[w] = CTL_STOP /\ wk[w].pc # "exited")
            ~> (wk[w].pc = "exited" /\ ctl[w] = CTL_ABSENT)

\* The worker has exited on a stop written to its control file (no signal
\* was sent) after it completed a job, and its control file is gone.
C20_Witness ==
    \E w \in StopWorkers :
        /\ wk[w].pc = "exited" /\ ctl[w] = CTL_ABSENT /\ ~stop_requested[w]
        /\ \E id \in DOMAIN jobs : jobs[id].state = STATE_COMPLETED

\* C23 as claimed: whenever the side-file exists its content is one complete
\* document, no load_json meets content json.load rejects, and every
\* write_json returns.
C23_WriteAllOrNothing ==
    /\ fs.path # NoInode => Complete(fs.data[fs.path])
    /\ \A p \in Writers : fs.wr[p].result \notin {J_DECODE_ERROR, J_NO_TMP}

\* C26: set_config(k, v) leaves get_config(k) = v, and while a key has a row
\* no step other than a set_config on that key changes what get_config
\* returns for it: an ensure_config_default of init_db never does.
C26_SetThenGet ==
    /\ [][\A k \in ConfigKeys, v \in ConfigValues :
            set_config(k, v) => get_config(k)' = v]_vars
    /\ [][\A k \in ConfigKeys :
            (k \in DOMAIN config /\ ~(\E v \in ConfigValues : set_config(k, v)))
                => get_config(k)' = get_config(k)]_vars

\* backoff_base has been set to 0 on a database whose init_db was still
\* under way: the default of max_retries_default was inserted later, and
\* backoff_base still reads 0.
C26_Witness ==
    /\ DOMAIN config = ConfigKeys
    /\ get_config(CONFIG_BACKOFF_BASE) = 0
    /\ get_config(CONFIG_MAX_RETRIES) = DEFAULT_MAX_RETRIES
    /\ config[CONFIG_MAX_RETRIES].updated_at > config[CONFIG_BACKOFF_BASE].updated_at

\* C21: with a worker that keeps running under fair scheduling, commands
\* that terminate and no delete or reset, every enqueued job eventually is
\* completed or dead, and a job whose command always fails eventually is
\* dead.
C21_EventuallyFinal ==
    \A id \in SysJobIds :
        /\ (id \in DOMAIN jobs)
              ~> (id \in DOMAIN jobs
                    /\ jobs[id].state \in {STATE_COMPLETED, STATE_DEAD})
        /\ (id \in DOMAIN jobs /\ jobs[id].command = "fail")
              ~> (id \in DOMAIN jobs /\ jobs[id].state = STATE_DEAD)

\* A job whose command always fails is dead after it was retried once,
\* having waited for the backoff delay of its first failure.
C21_Witness ==
    \E id \in DOMAIN jobs :
        /\ jobs[id].command = "fail" /\ jobs[id].state = STATE_DEAD
        /\ jobs[id].attempts = 2 /\ execs[id] = 2
        /\ backoff_base = 1
        /\ jobs[id].updated_at >= jobs[id].created_at + TicksPerSec

\* A job whose command exits 0 is never recorded as failed or dead.
C22_OkNeverFailed ==
    \A id \in DOMAIN jobs :
        jobs[id].command = "ok" => jobs[id].state \notin {STATE_FAILED, STATE_DEAD}

\* C22 as claimed: with store errors in the worker loop no worker process
\* ends, and a job whose command exits 0 is never recorded as failed or
\* dead.
C22_StoreErrorsSurvived ==
    /\ \A w \in Workers : wk[w].pc # "crashed"
    /\ C22_OkNeverFailed

\* C24 as claimed: in the whole system the attempts of a job decrease only
\* in a step that is the reset_job of a dlq retry, which leaves them 0.
C24_AttemptsMonotone ==
    [][\A id \in DOMAIN jobs :
        (id \in DOMAIN jobs' /\ jobs'[id].attempts < jobs[id].attempts)
            => /\ \E c \in AllClients : RetryResetStep(c, id)
               /\ jobs'[id].attempts = 0]_vars

\* C25 as claimed: with callers that read the clock before their
\* transaction starts, no step makes the updated_at of a row earlier than it
\* was.
C25_UpdatedAtMonotone ==
    [][\A id \in DOMAIN jobs :
        id \in DOMAIN jobs' => jobs'[id].updated_at >= jobs[id].updated_at]_vars

\* The worker w completes a call of acquire_next_job in this step.
AcquireStep(w) == wk[w].pc = "claim" /\ wk'[w] # wk[w]

\* C27 as claimed: a claim issued with now when no pending or failed job has
\* available_at <= now returns no job and leaves the jobs and config tables
\* as they were.
C27_EmptyClaimNoEffect ==
    [][\A w \in Workers :
        (AcquireStep(w)
            /\ ~(\E j \in DOMAIN jobs :
                    /\ jobs[j].state \in {STATE_PENDING, STATE_FAILED}
                    /\ jobs[j].available_at <= wk[w].now))
          => /\ wk'[w].pc # "run" /\ wk'[w].job = NoJob
             /\ jobs' = jobs /\ config' = config]_vars

\* C30: a successful claim with now writes state = processing,
\* processing_started_at = now and updated_at = now on the claimed row and
\* nothing else: attempts, max_retries, command, created_at, available_at and
\* last_error of that row, every other row and the config table stay as
\* they were, and the worker gets the id, command, attempts and max_retries
\* the row held (the model keeps job.attempts + 1 of worker.py:75).
C30_ClaimFrame ==
    [][\A w \in Workers, id \in JobIds :
        ClaimStep(w, id) =>
            /\ id \in DOMAIN jobs /\ DOMAIN jobs' = DOMAIN jobs
            /\ jobs'[id] = [jobs[id] EXCEPT !.state = STATE_PROCESSING,
                                            !.processing_started_at = wk[w].now,
                                            !.updated_at = wk[w].now]
            /\ jobs'[id].attempts = jobs[id].attempts
            /\ jobs'[id].max_retries = jobs[id].max_retries
            /\ jobs'[id].command = jobs[id].command
            /\ jobs'[id].created_at = jobs[id].created_at
            /\ jobs'[id].available_at = jobs[id].available_at
            /\ jobs'[id].last_error = jobs[id].last_error
            /\ \A k \in DOMAIN jobs \ {id} : jobs'[k] = jobs[k]
            /\ config' = config
            /\ wk'[w].command = jobs[id].command
            /\ wk'[w].attempts = jobs[id].attempts + 1
            /\ wk'[w].max_retries = jobs[id].max_retries]_vars

\* A worker has claimed, at a time after its failure, a job that failed
\* once and carries a last_error, while another job is in the table.
C30_Witness ==
    \E w \in Workers, id \in DOMAIN jobs, k \in DOMAIN jobs :
        /\ k # id
        /\ wk[w].pc = "run" /\ wk[w].job = id /\ wk[w].attempts = 2
        /\ jobs[id].state = STATE_PROCESSING /\ jobs[id].attempts = 1
        /\ jobs[id].last_error # NULL
        /\ jobs[id].processing_started_at > jobs[id].available_at

\* The job id is in processing and no running worker holds it: the worker
\* that claimed it has crashed.
Orphaned(id) ==
    /\ id \in DOMAIN jobs /\ jobs[id].state = STATE_PROCESSING
    /\ Holders(id) = {}

\* C28 as claimed: an orphaned job stays in processing, no worker acquires
\* it and no step of a worker changes it; and an operator can reset it: a dlq
\* retry of it goes on to reset_job.
C28_OrphanStaysUntilReset ==
    /\ [][\A id \in DOMAIN jobs :
            Orphaned(id) =>
                /\ \A w \in Workers : ~ClaimStep(w, id)
                /\ (id \in DOMAIN jobs' /\ jobs'[id] # jobs[id])
                      => \E c \in AllClients : RetryResetStep(c, id)]_vars
    /\ [][\A c \in AllClients, id \in JobIds :
            (RetryCheck(c, id) /\ Orphaned(id)) => cl'[c].pc = "retry"]_vars

\* The run and mark steps of worker w, as Worker.run takes them when the
\* store raises no error.
C29_WorkerStep(w) ==
    /\ (wk[w].pc = "run" /\ wk'[w] # wk[w]) =>
          /\ wk'[w].pc = "mark" /\ wk'[w].job = wk[w].job /\ jobs' = jobs
          /\ wk[w].command = "ok" => wk'[w].exit_code = 0
          /\ wk[w].command = "fail" => wk'[w].exit_code # 0
          /\ wk'[w].exit_code # 0 => wk'[w].error > 0
    /\ (wk[w].pc = "mark" /\ wk'[w] # wk[w] /\ wk[w].job \in DOMAIN jobs) =>
          /\ wk'[w].pc = "top"
          /\ jobs' = [jobs EXCEPT ![wk[w].job] =
                IF wk[w].exit_code = 0
                THEN CompletedRow(@, wk[w].attempts, wk[w].now)
                ELSE FailedRow(@, wk[w].attempts, wk[w].max_retries, wk[w].error,
                               wk[w].now,
                               BackoffSeconds(wk[w].attempts, wk[w].max_retries))]
          /\ wk[w].exit_code = 0 => jobs'[wk[w].job].state = STATE_COMPLETED
          /\ wk[w].exit_code # 0 =>
                /\ jobs'[wk[w].job].state \in {STATE_FAILED, STATE_DEAD}
                /\ jobs'[wk[w].job].last_error > 0
                /\ jobs'[wk[w].job].last_error <= ERROR_LIMIT

\* C29: every claimed job gets exactly one mark: after the command ended,
\* whatever way, the worker makes one store call, mark_job_completed if the
\* exit code is 0 and mark_job_failed otherwise, and is back at the top of
\* its loop; a failed or dead job has a last_error of 1 to 512 characters;
\* and the worker never leaves its loop.
C29_OneMarkPerClaim ==
    /\ [][\A w \in Workers : C29_WorkerStep(w)]_vars
    /\ [](\A id \in DOMAIN jobs :
            jobs[id].state \in {STATE_FAILED, STATE_DEAD} =>
                /\ jobs[id].last_error # NULL
                /\ jobs[id].last_error > 0 /\ jobs[id].last_error <= ERROR_LIMIT)
    /\ [](\A w \in Workers : wk[w].pc \in {"top", "claim", "run", "mark"})

\* A job failed once printing nothing and got the synthetic text; retried,
\* its command could not be started, the message was longer than 512
\* characters and was cut; the job is dead and the worker is polling again.
C29_Witness ==
    \E id \in DOMAIN jobs, w \in CtlWorkers :
        /\ jobs[id].state = STATE_DEAD /\ jobs[id].attempts = 2
        /\ jobs[id].last_error = ERROR_LIMIT
        /\ wk[w].pc = "claim"

\* The worker w records the outcome of the job it claimed: the
\* mark_job_completed or mark_job_failed of its run ends.
MarkStep(w) == wk[w].pc = "mark" /\ wk'[w].pc = "top"

\* C32 as claimed: a mark only affects the job instance the worker claimed.
\* The mark of a job that was deleted does not recreate it, and a mark that
\* finds under its id a row that is not the processing row of the claim (a
\* job enqueued under the same id in the meantime, still pending with
\* attempts = 0) changes no job.
C32_MarkOnlyClaimedInstance ==
    [][\A w \in Workers :
        MarkStep(w) =>
            /\ DOMAIN jobs' = DOMAIN jobs
            /\ \A id \in DOMAIN jobs : id # wk[w].job => jobs'[id] = jobs[id]
            /\ (wk[w].job \in DOMAIN jobs
                    /\ jobs[wk[w].job].state = STATE_PENDING
                    /\ jobs[wk[w].job].attempts = 0)
                  => jobs' = jobs]_vars

\* C31 as claimed: whatever the control file holds, the stop check does not
\* end the worker, and with the signal flag unset any content but a document
\* whose stop field is true lets the loop go on to its next claim.
C31_StopCheckNeverCrashes ==
    /\ [](\A w \in StopWorkers : wk[w].pc # "crashed")
    /\ [][\A w \in StopWorkers :
            (wk[w].pc = "top" /\ wk'[w] # wk[w]
                /\ ~stop_requested[w] /\ ctl[w] # CTL_STOP)
              => wk'[w].pc = "claim"]_vars

\* The worker w has an entry in registry.json.
InRegistry(w) == \E i \in 1 .. Len(registry) : registry[i] = w

\* The _spawn_worker call that started the worker w has returned.
Spawned(w) == wk[w].pc # "unspawned" /\ \A s \in Supervisors : sup[s].id # w

\* The supervisor s ends a sweep: the write_json of _cleanup_worker_registry.
SweepStep(s) == sup[s].pc = "sweep_write" /\ sup'[s].pc = "idle"

\* C33 as claimed: with supervisors that spawn and sweep at the same time,
\* every worker whose spawn has returned and whose process is alive has an
\* entry in the registry, and the write of a sweep removes only entries of
\* workers whose process is not alive.
C33_RegistryTracksWorkers ==
    /\ [](\A w \in Workers : (Spawned(w) /\ _pid_alive(w)) => InRegistry(w))
    /\ [][\A s \in Supervisors, w \in Workers :
            (SweepStep(s) /\ InRegistry(w)
                /\ ~(\E i \in 1 .. Len(registry') : registry'[i] = w))
              => ~_pid_alive(w)]_vars

\* The supervisor s takes the next step of the command it is in at pc.
SupStep(s, pc) == sup[s].pc = pc /\ sup'[s] # sup[s]

\* worker stop without an id, from its loop on: each turn of the loop sets
\* stop = true in the control file of the next target, the sweep follows
\* the last target, it keeps the registered workers whose process is alive
\* and no others, and its list replaces the registry.
C34_StopAll ==
    \A s \in Supervisors :
        /\ (StopLoad(s, NULL) /\ registry # << >>)
              => sup'[s].pc = "request" /\ sup'[s].targets = registry
        /\ SupStep(s, "request")
              => /\ ctl'[Head(sup[s].targets)] = CTL_STOP
                 /\ sup'[s].pc =
                        IF Len(sup[s].targets) = 1 THEN "sweep_load" ELSE "request"
        /\ SupStep(s, "sweep_load")
              => \A w \in Workers :
                    (\E i \in 1 .. Len(sup'[s].registry) : sup'[s].registry[i] = w)
                        <=> (InRegistry(w) /\ _pid_alive(w))
        /\ SupStep(s, "sweep_write")
              => registry' = sup[s].registry /\ sup'[s].result = R_STOP_SENT

\* C34 as claimed: worker_stop with an id that has no entry in the registry
\* ends with "not found", writes no control file and leaves the registry as
\* it is; worker_stop without an id sets stop = true in the control file of
\* every registered worker and then rewrites the registry with the entries
\* whose pid is alive.
C34_WorkerStop ==
    /\ [][\A s \in Supervisors, worker_id \in StopIds \ {NULL} :
            (StopLoad(s, worker_id) /\ ~InRegistry(worker_id))
              => /\ sup'[s] = SupEnded(R_WORKER_NOT_FOUND)
                 /\ ctl' = ctl /\ registry' = registry]_vars
    /\ [][C34_StopAll]_vars

====
